---- MODULE Spec2Model ----
(***************************************************************************)
(* A state-machine model of the golf tracker repository: the Supabase edge *)
(* handlers (get-courses, get-course-details in its three versions,        *)
(* get-course-detailed-info, the insights POST handler), the courseService *)
(* wrappers of the mobile client, and TrackerScreen's finish-round run.    *)
(*                                                                         *)
(* Time is counted in whole days: the handlers compare millisecond         *)
(* timestamps against 90 * 24 * 60 * 60 * 1000 ms, a number beyond TLC's   *)
(* integers, so one unit of `clock' is one day and the threshold is 90.    *)
(***************************************************************************)
EXTENDS Integers, Sequences, FiniteSets, TLC

VARIABLES
  clock,      \* the wall clock (new Date()), in days
  ticks,      \* how often the clock has advanced
  env,        \* Deno.env of the deployment: which secrets are set
  courses,    \* the courses table: course id -> row
  rounds,     \* the rounds table: a set of rows
  insights,   \* the insights table: a sequence of inserted rows
  req,        \* the edge invocations: slot -> the invocation's local state
  served,     \* how many invocations have started
  svc,        \* the mobile client's courseService call in progress
  trk,        \* TrackerScreen: its React state and the finishRound run
  storage,    \* AsyncStorage: the round's hole data and currentRound
  rsvc        \* roundservice: the calls it received from the tracker

edgeVars == <<clock, ticks, env, courses, rounds, insights, req, served>>

trkVars == <<trk, storage, rsvc>>

clientVars == <<svc, trk, storage, rsvc>>

vars ==
  <<clock, ticks, env, courses, rounds, insights, req, served, svc, trk, storage,
    rsvc>>

----------------------------------------------------------------------------
(* Bounds and program constants *)

MaxTicks == 2

MaxRequests == 2

\* the shots entered in one round
MaxShots == 2

\* the hole the player walks to at most
MaxHole == 3

\* the presses of the screen's buttons in one run
MaxPresses == 4

\* the runs of the initialization effect that go on to create a round
MaxEffectRuns == 2

\* FRESHNESS_THRESHOLD_MS, in days
FRESHNESS_THRESHOLD_DAYS == 90

\* the time that can pass between two readings of the clock
Elapsed == {0, 1, FRESHNESS_THRESHOLD_DAYS}

NoTime == -1

----------------------------------------------------------------------------
(* The courses table *)

CourseIds == {"c1"}

\* a course id no row has
UnknownId == "c9"

ApiIds == {"a1"}

NoRow == [none |-> TRUE]

PoiNull == [null |-> TRUE, holes |-> <<>>]

PoiOf(s) == [null |-> FALSE, holes |-> s]

\* a poi column: per hole of the list, the number of features stored for it
PoiLen(p) == IF p.null THEN 0 ELSE Len(p.holes)

\* a complete row as get-course-details and get-course-detailed-info left it
FullRow ==
  [id |-> "c1", api_course_id |-> "a1", name |-> "Old", par |-> 70, tees |-> 1,
   holes |-> 1, poi |-> PoiOf(<<2>>), created_at |-> 0, updated_at |-> 0]

\* the rows the table starts with: complete; never stamped; without tees;
\* without points of interest; not known to the upstream API
InitRows ==
  {FullRow,
   [FullRow EXCEPT !.updated_at = NoTime],
   [FullRow EXCEPT !.tees = 0],
   [FullRow EXCEPT !.poi = PoiNull],
   [FullRow EXCEPT !.api_course_id = ""]}

IsRow(x) == "id" \in DOMAIN x

\* supabase.from('courses').select('*').eq('id', courseId).single()
SelectById(tbl, courseId) ==
  IF courseId \in DOMAIN tbl THEN tbl[courseId] ELSE NoRow

\* supabase.from('courses').select('*').eq('api_course_id', apiCourseId).single()
SelectByApiId(tbl, apiCourseId) ==
  LET hits == {c \in DOMAIN tbl : tbl[c].api_course_id = apiCourseId}
  IN IF Cardinality(hits) = 1 THEN tbl[CHOOSE c \in hits : TRUE] ELSE NoRow

----------------------------------------------------------------------------
(* Invocations *)

Reqs == {"r1", "r2"}

DetailKinds == {"details-api", "details-nested", "detailed-info"}

Kinds == {"get-courses", "details-db", "insights"} \cup DetailKinds

NoBody == [kind |-> "none"]

\* an invocation's locals; failure names the refresh step that failed, if any
Idle ==
  [pc |-> "idle", kind |-> "", lastSeg |-> "", queryId |-> "", courseId |-> "",
   apiParam |-> "", refresh |-> FALSE, now |-> 0, existing |-> NoRow,
   found |-> NoRow, needs |-> FALSE, apiId |-> "", merged |-> NoRow,
   dbCalls |-> 0, apiCalls |-> 0, wrote |-> FALSE, failure |-> "",
   auth |-> "", bodyUser |-> "", status |-> 0, body |-> NoBody]

\* new Response(JSON.stringify({ error: ... }), { status })
ErrorBody(msg, withTs) == [kind |-> "error", message |-> msg, timestamp |-> withTs]

\* const now = new Date(): the clock is read d days after its last reading
Advance(d) ==
  /\ d \in Elapsed
  /\ d > 0 => ticks < MaxTicks
  /\ clock' = clock + d
  /\ ticks' = IF d > 0 THEN ticks + 1 ELSE ticks

\* one more invocation starts
Serve ==
  /\ served < MaxRequests
  /\ served' = served + 1

Respond(s, status, body) == [s EXCEPT !.pc = "done", !.status = status, !.body = body]

\* the handlers whose outer catch adds a timestamp to the body
TimestampKinds == DetailKinds \cup {"insights"}

\* an outer catch that stamps every 500 body, whatever the handler
OuterCatchStamped(s, msg) == Respond(s, 500, ErrorBody(msg, TRUE))

\* catch (error) { return new Response({ error: error.message, ... }, 500) }
OuterCatch(s, msg) == Respond(s, 500, ErrorBody(msg, s.kind \in TimestampKinds))

\* the name the function is deployed under, as it appears in the path
FunctionName(kind) ==
  IF kind = "detailed-info" THEN "get-course-detailed-info" ELSE "get-course-details"

\* a parse that takes the last path segment as it is
ParseCourseIdRaw(kind, lastSeg, queryId) == lastSeg

\* courseId = pathParts[pathParts.length - 1], or the query parameter when
\* the last segment is the function's name
ParseCourseId(kind, lastSeg, queryId) ==
  IF lastSeg = FunctionName(kind) THEN queryId ELSE lastSeg

\* if (!courseId) ... ; detailed-info: if (!courseId && !apiCourseId)
MissingIdentifier(kind, courseId, apiParam) ==
  IF kind = "detailed-info" THEN courseId = "" /\ apiParam = "" ELSE courseId = ""

MissingIdMessage(kind) ==
  IF kind = "detailed-info" THEN "Course ID or API Course ID is required"
  ELSE "Course ID is required"

\* a staleness test that already fires at exactly the threshold
DataStaleAtThreshold(row, now) ==
  /\ row.updated_at # NoTime
  /\ now - row.updated_at >= FRESHNESS_THRESHOLD_DAYS

\* dataStale: staleDuration > FRESHNESS_THRESHOLD_MS, only with an updated_at
DataStale(row, now) ==
  /\ row.updated_at # NoTime
  /\ now - row.updated_at > FRESHNESS_THRESHOLD_DAYS

\* needsApiRefresh of get-course-details, for a row that was found
NeedsRefreshDetails(row, forceRefresh, now) ==
  forceRefresh \/ ~(row.tees > 0) \/ ~(row.holes > 0) \/ DataStale(row, now)

\* needsApiRefresh of get-course-detailed-info
NeedsRefreshPoi(row, forceRefresh, now) ==
  forceRefresh \/ ~(PoiLen(row.poi) > 0) \/ DataStale(row, now)

\* an ending that answers 200 with whatever the lookup left
FinishDetailsAlways200(s) ==
  Respond(s, 200, [kind |-> "course", row |-> s.existing, data_refreshed |-> s.needs])

\* the 200 response of a course-detail handler; without a row, the 404
FinishDetails(s) ==
  IF ~IsRow(s.existing)
  THEN Respond(s, 404, ErrorBody("Course not found", FALSE))
  ELSE Respond(s, 200, [kind |-> "course", row |-> s.existing,
                        data_refreshed |-> s.needs])

\* an inner catch that re-throws whether or not a row was found
ApiCatchRethrow(s, step, msg) == OuterCatch([s EXCEPT !.failure = step], msg)

\* catch (apiError): with a row, go on and return it; without, re-throw
ApiCatch(s, step, msg) ==
  IF IsRow(s.existing)
  THEN FinishDetails([s EXCEPT !.failure = step])
  ELSE OuterCatch([s EXCEPT !.failure = step], msg)

----------------------------------------------------------------------------
(* The upstream golf API *)

\* what the course endpoint's JSON holds, as far as the handlers read it
CoursePayloads ==
  [course : BOOLEAN, name : BOOLEAN, par : BOOLEAN, tees : 0..1, holes : 0..1]

\* /coordinates: whether the body has a coordinates array, and per hole with
\* a usable coordinate the number of coordinates of a known type
CoordPayloads ==
  [coordinates : BOOLEAN, holes : {<<>>, <<0>>, <<3>>}]

Payloads(kind) == IF kind = "detailed-info" THEN CoordPayloads ELSE CoursePayloads

\* fetch(apiUrl): it rejects, or resolves with a status and a body
Outcomes(kind) ==
  {[t |-> "reject"]} \cup [t : {"status"}, code : {404, 500}]
    \cup [t : {"ok"}, payload : Payloads(kind)]

\* calculateCoursePar: the sum of the pars, 72 when there is none
calculateCoursePar(total) == IF total > 0 THEN total ELSE 72

\* transformedCourse of the API version: par is course.par || null
TransformApi(p, now) ==
  [name |-> IF p.name THEN "New" ELSE "", par |-> IF p.par THEN 72 ELSE 0,
   tees |-> p.tees, holes |-> p.holes, updated_at |-> now]

\* transformedCourse of the nested/root version
TransformNested(p, now) ==
  [name |-> IF p.name THEN "New" ELSE "",
   par |-> calculateCoursePar(IF p.par THEN 72 ELSE 0),
   tees |-> p.tees, holes |-> p.holes, updated_at |-> now]

\* a validation that does not look at the holes
IsValidWithoutHoles(t) == t.name # "" /\ t.par # 0 /\ t.tees > 0

\* isValid
IsValid(t) == t.name # "" /\ t.par # 0 /\ t.tees > 0 /\ t.holes > 0

\* a row built from the transformed course alone, the other columns reset
MergedCourseReplaced(existing, t) ==
  [existing EXCEPT !.name = t.name, !.par = t.par, !.tees = t.tees,
                   !.holes = t.holes, !.updated_at = t.updated_at,
                   !.poi = PoiNull, !.created_at = t.updated_at]

\* mergedCourse = { ...existingCourse, ...transformedCourse, id, created_at }
MergedCourse(existing, t) ==
  [existing EXCEPT !.name = t.name, !.par = t.par, !.tees = t.tees,
                   !.holes = t.holes, !.updated_at = t.updated_at]

\* the update of get-course-detailed-info: only poi and updated_at
PoiUpdate(row, poi, now) == [row EXCEPT !.poi = poi, !.updated_at = now]

----------------------------------------------------------------------------
(* The course-detail handlers, one action per await *)

\* up to the first await: credentials, the identifier, now
StartDetails(s) ==
  IF ~env.supabase
  THEN OuterCatch(s, "Missing Supabase credentials in environment variables")
  ELSE IF MissingIdentifier(s.kind, s.courseId, s.apiParam)
  THEN Respond(s, 400, ErrorBody(MissingIdMessage(s.kind), FALSE))
  ELSE [s EXCEPT !.pc = "lookup", !.dbCalls = 1]

Receive(r, kind, lastSeg, queryId, apiParam, refresh, d) ==
  /\ req[r].pc = "idle"
  /\ apiParam # "" => kind = "detailed-info"
  /\ refresh => kind # "details-db"
  /\ Advance(d)
  /\ Serve
  /\ req' = [req EXCEPT ![r] = StartDetails(
        [Idle EXCEPT !.kind = kind, !.lastSeg = lastSeg, !.queryId = queryId,
                     !.courseId = ParseCourseId(kind, lastSeg, queryId),
                     !.apiParam = apiParam, !.refresh = refresh, !.now = clock'])]
  /\ UNCHANGED <<clientVars, env, courses, rounds, insights>>

\* the database-only version: select, then 404 or the row
AfterLookupDb(s, row) ==
  IF ~IsRow(row)
  THEN Respond(s, 404, ErrorBody("Course not found", FALSE))
  ELSE Respond([s EXCEPT !.existing = row, !.found = row], 200,
               [kind |-> "course", row |-> row, data_refreshed |-> FALSE])

\* a guard that waits while another invocation refreshes: a lock
MayFetchLocked(s, needs, apiId) ==
  /\ needs /\ env.golfKey /\ apiId # ""
  /\ \A q \in Reqs : req[q].pc \notin {"fetch", "update", "refresh"}

\* whether this invocation may send its upstream request now
MayFetch(s, needs, apiId) == needs /\ env.golfKey /\ apiId # ""

\* get-course-details after the select: needsApiRefresh, then the fetch
AfterLookupDetails(s, row) ==
  LET needs == IF IsRow(row) THEN NeedsRefreshDetails(row, s.refresh, s.now) ELSE TRUE
      apiId == IF IsRow(row) THEN row.api_course_id ELSE ""
      s1 == [s EXCEPT !.existing = row, !.found = row, !.needs = needs,
                      !.apiId = apiId]
  IN IF MayFetch(s1, needs, apiId)
     THEN [s1 EXCEPT !.pc = "fetch", !.apiCalls = 1]
     ELSE FinishDetails(s1)

\* get-course-detailed-info after the select
AfterLookupPoi(s, row) ==
  IF ~IsRow(row)
  THEN Respond(s, 404, ErrorBody("Course not found in database", FALSE))
  ELSE LET needs == NeedsRefreshPoi(row, s.refresh, s.now)
           apiId == IF s.apiParam # "" THEN s.apiParam ELSE row.api_course_id
           s1 == [s EXCEPT !.existing = row, !.found = row, !.needs = needs,
                           !.apiId = apiId]
       IN IF MayFetch(s1, needs, apiId)
          THEN [s1 EXCEPT !.pc = "fetch", !.apiCalls = 1]
          ELSE FinishDetails(s1)

\* the row the first select gives; a database error gives none
LookupRow(s, dbOk) ==
  IF ~dbOk THEN NoRow
  ELSE IF s.kind = "detailed-info" /\ s.courseId = ""
  THEN SelectByApiId(courses, s.apiParam)
  ELSE SelectById(courses, s.courseId)

Lookup(r, dbOk) ==
  /\ req[r].pc = "lookup"
  /\ LET s == req[r]
         row == LookupRow(s, dbOk)
     IN req' = [req EXCEPT ![r] =
          CASE s.kind = "details-db" -> AfterLookupDb(s, row)
            [] s.kind = "detailed-info" -> AfterLookupPoi(s, row)
            [] OTHER -> AfterLookupDetails(s, row)]
  /\ UNCHANGED <<clientVars, clock, ticks, env, courses, rounds, insights, served>>

\* what the upstream can answer: during an outage no request succeeds
Answers(kind) ==
  IF env.upstreamUp THEN Outcomes(kind)
  ELSE {o \in Outcomes(kind) : o.t = "reject" \/ (o.t = "status" /\ o.code = 500)}

\* a valid transformed course: update the row found, or insert a new one
StoreCourse(s, t) ==
  IF IsRow(s.existing)
  THEN [s EXCEPT !.pc = "update", !.merged = MergedCourse(s.existing, t),
                 !.dbCalls = @ + 1]
  ELSE IF s.apiId # ""
  THEN [s EXCEPT !.pc = "insert", !.dbCalls = @ + 1,
                 !.merged = [id |-> UnknownId, api_course_id |-> s.apiId,
                             name |-> t.name, par |-> t.par, tees |-> t.tees,
                             holes |-> t.holes, poi |-> PoiNull,
                             created_at |-> s.now, updated_at |-> t.updated_at]]
  ELSE FinishDetails(s)

\* get-course-details, the API version, once the fetch has settled
AfterFetchApi(s, o) ==
  IF o.t # "ok" THEN ApiCatch(s, "upstream", "API error")
  ELSE IF ~o.payload.course
  THEN ApiCatch(s, "payload", "API returned invalid course data structure")
  ELSE LET t == TransformApi(o.payload, s.now)
       IN IF ~IsValid(t)
          THEN ApiCatch(s, "payload", "API returned incomplete course data")
          ELSE StoreCourse(s, t)

\* get-course-details, the nested/root version, once the fetch has settled
AfterFetchNested(s, o) ==
  IF o.t # "ok" THEN ApiCatch(s, "upstream", "API error")
  ELSE IF ~(o.payload.course /\ o.payload.tees > 0)
  THEN ApiCatch(s, "payload", "API returned invalid course data structure")
  ELSE LET t == TransformNested(o.payload, s.now)
       IN IF ~IsValid(t)
          THEN ApiCatch(s, "payload", "API returned incomplete course data")
          ELSE StoreCourse(s, t)

\* get-course-detailed-info once the fetch has settled
AfterFetchPoi(s, o) ==
  IF o.t = "reject" THEN ApiCatch(s, "upstream", "fetch failed")
  ELSE IF o.t = "status" /\ o.code = 404
  THEN [s EXCEPT !.pc = "mark", !.failure = "upstream", !.dbCalls = @ + 1]
  ELSE IF o.t = "status" THEN ApiCatch(s, "upstream", "API error")
  ELSE IF ~o.payload.coordinates
  THEN ApiCatch(s, "payload", "API returned invalid coordinates data structure")
  ELSE IF Len(o.payload.holes) = 0
  THEN ApiCatch(s, "payload", "API returned unusable coordinate data")
  ELSE [s EXCEPT !.pc = "update", !.merged = PoiOf(o.payload.holes),
                 !.dbCalls = @ + 1]

Fetch(r, o) ==
  /\ req[r].pc = "fetch"
  /\ o \in Answers(req[r].kind)
  /\ LET s == req[r]
     IN req' = [req EXCEPT ![r] =
          CASE s.kind = "details-api" -> AfterFetchApi(s, o)
            [] s.kind = "details-nested" -> AfterFetchNested(s, o)
            [] OTHER -> AfterFetchPoi(s, o)]
  /\ UNCHANGED <<clientVars, clock, ticks, env, courses, rounds, insights, served>>

\* the row an update or insert of this invocation leaves in the table
Written(s, tbl) ==
  CASE s.pc = "insert" -> s.merged
    [] s.kind = "detailed-info" -> PoiUpdate(tbl[s.existing.id], s.merged, s.now)
    [] OTHER -> s.merged

\* await supabase.from('courses').update(...).eq('id', existingCourse.id)
Write(r, ok) ==
  /\ req[r].pc \in {"update", "insert"}
  /\ LET s == req[r]
         key == IF s.pc = "insert" THEN UnknownId ELSE s.existing.id
     IN IF ok
        THEN /\ courses' = [c \in DOMAIN courses \cup {key} |->
                              IF c = key THEN Written(s, courses) ELSE courses[c]]
             /\ req' = [req EXCEPT ![r] =
                  IF s.pc = "insert"
                  THEN FinishDetails([s EXCEPT !.wrote = TRUE, !.existing = s.merged])
                  ELSE [s EXCEPT !.pc = "refresh", !.wrote = TRUE, !.dbCalls = @ + 1]]
        ELSE /\ courses' = courses
             /\ req' = [req EXCEPT ![r] =
                  ApiCatch(s, "update", "Database error updating course")]
  /\ UNCHANGED <<clientVars, clock, ticks, env, rounds, insights, served>>

\* the coordinates API answered 404: poi = [], updated_at = now; the result of
\* this update is not looked at
Mark(r, ok) ==
  /\ req[r].pc = "mark"
  /\ LET s == req[r]
         id == s.existing.id
     IN /\ courses' = IF ok
                      THEN [courses EXCEPT ![id] = PoiUpdate(@, PoiOf(<<>>), s.now)]
                      ELSE courses
        /\ req' = [req EXCEPT ![r] = FinishDetails([s EXCEPT !.wrote = ok])]
  /\ UNCHANGED <<clientVars, clock, ticks, env, rounds, insights, served>>

\* the select after the update: on an error the old snapshot stays
Refresh(r, ok) ==
  /\ req[r].pc = "refresh"
  /\ LET s == req[r]
     IN req' = [req EXCEPT ![r] = FinishDetails(
          [s EXCEPT !.existing = IF ok THEN courses[s.existing.id] ELSE @])]
  /\ UNCHANGED <<clientVars, clock, ticks, env, courses, rounds, insights, served>>

\* the response is sent and the invocation ends
Reset(r) ==
  /\ req[r].pc = "done"
  /\ req' = [req EXCEPT ![r] = Idle]
  /\ UNCHANGED <<clientVars, clock, ticks, env, courses, rounds, insights, served>>

----------------------------------------------------------------------------
(* get-courses *)

\* parseInt(url.searchParams.get('limit') || '20', 10)
DefaultLimit == 20

Users == {"u1", "u2", "u3"}

\* the user a valid bearer token belongs to
TokenUser == "u1"

Rounds0 ==
  {[id |-> "g1", profile_id |-> "u1", course_id |-> "c1", created_at |-> 0,
    is_complete |-> TRUE],
   [id |-> "g2", profile_id |-> "u2", course_id |-> "c1", created_at |-> 0,
    is_complete |-> TRUE],
   [id |-> "g3", profile_id |-> "u3", course_id |-> "c1", created_at |-> 0,
    is_complete |-> FALSE]}

\* the order of the names, for .order('name')
NameRank(name) == IF name = "New" THEN 1 ELSE 2

RECURSIVE OrderByName(_)
OrderByName(S) ==
  IF S = {} THEN <<>>
  ELSE LET x == CHOOSE x \in S : \A y \in S : NameRank(x.name) <= NameRank(y.name)
       IN <<x>> \o OrderByName(S \ {x})

\* .order('created_at', { ascending: false })
RECURSIVE OrderByCreatedDesc(_)
OrderByCreatedDesc(S) ==
  IF S = {} THEN <<>>
  ELSE LET x == CHOOSE x \in S : \A y \in S : x.created_at >= y.created_at
       IN <<x>> \o OrderByCreatedDesc(S \ {x})

\* .limit(n), .slice(0, n)
Take(s, n) == IF Len(s) <= n THEN s ELSE SubSeq(s, 1, n)

\* name.ilike.%q%, for the names and queries of the model
Matches(row, q) == q = "old" /\ row.name = "Old"

\* id, name, club_name, location, tees and the has_tee_data flag
Listed(row) == [id |-> row.id, name |-> row.name, has_tee_data |-> row.tees > 0]

ListAll(s) == [i \in 1..Len(s) |-> Listed(s[i])]

\* uniqueRecentCourses: the first round of each course, in the rounds' order
RECURSIVE UniqueCourses(_, _, _)
UniqueCourses(rs, seen, tbl) ==
  IF rs = <<>> THEN <<>>
  ELSE LET c == Head(rs).course_id
       IN IF c \in DOMAIN tbl /\ c \notin seen
          THEN <<Listed(tbl[c])>> \o UniqueCourses(Tail(rs), seen \cup {c}, tbl)
          ELSE UniqueCourses(Tail(rs), seen, tbl)

CompletedRounds(userId) ==
  OrderByCreatedDesc({g \in rounds : g.profile_id = userId /\ g.is_complete})

\* the recent courses without the final slice(0, limit)
RecentCoursesUnsliced(userId, noRecent, limit, ok) ==
  IF userId # "" /\ ~noRecent /\ ok
  THEN UniqueCourses(CompletedRounds(userId), {}, courses)
  ELSE <<>>

\* CASE 1: the recent courses of the effective user
RecentCourses(userId, noRecent, limit, ok) ==
  IF userId # "" /\ ~noRecent /\ ok
  THEN Take(UniqueCourses(CompletedRounds(userId), {}, courses), limit)
  ELSE <<>>

\* CASE 2 (a query of 3 characters or more) and CASE 3 (no query)
FoundCourses(query, limit, ok) ==
  LET all == {courses[c] : c \in DOMAIN courses}
  IN IF ~ok \/ query = "ol" THEN <<>>
     ELSE IF query = "" THEN ListAll(Take(OrderByName(all), limit))
     ELSE ListAll(Take(OrderByName({x \in all : Matches(x, query)}), limit))

\* the whole get-courses handler; it writes nothing
GetCourses(r, query, userId, limit, noRecent, auth, recentOk, listOk) ==
  /\ req[r].pc = "idle"
  /\ Serve
  /\ LET s == [Idle EXCEPT !.kind = "get-courses"]
         fromAuth == IF auth = "valid" THEN TokenUser ELSE ""
         effectiveUserId == IF userId # "" THEN userId ELSE fromAuth
     IN req' = [req EXCEPT ![r] =
          IF ~env.supabase
          THEN OuterCatch(s, "Missing Supabase credentials in environment variables")
          ELSE Respond(s, 200,
                 [kind |-> "list",
                  courses |-> FoundCourses(query, limit, listOk),
                  recentCourses |-> RecentCourses(effectiveUserId, noRecent,
                                                  limit, recentOk)])]
  /\ UNCHANGED <<clientVars, clock, ticks, env, courses, rounds, insights>>

----------------------------------------------------------------------------
(* The insights POST handler *)

\* what supabase.auth.getUser(token) can do, and "none": no header was sent
AuthOutcomes == {"none", "valid", "error", "nouser", "throws"}

\* the request bodies: none, a user with a round, a user without rounds
Bodies ==
  {[userId |-> "", roundId |-> ""], [userId |-> "u2", roundId |-> "g2"],
   [userId |-> "u3", roundId |-> ""]}

\* a resolution that prefers the body's userId to the token's user
ResolveUserIdBodyFirst(auth, bodyUser) ==
  IF bodyUser # "" THEN bodyUser
  ELSE IF auth = "valid" THEN TokenUser ELSE ""

\* let userId: from the token, or from the request body
ResolveUserId(auth, bodyUser) ==
  CASE auth = "none" -> bodyUser
    [] auth = "valid" -> TokenUser
    [] auth = "nouser" -> ""
    [] OTHER -> bodyUser

\* the ids of the user's 5 most recent completed rounds
RecentRoundIds(userId) ==
  LET rs == Take(CompletedRounds(userId), 5)
  IN [i \in 1..Len(rs) |-> rs[i].id]

\* an insights handler in which a failed insert fails the request
InsightsInsertFatal(r, auth, bodyUser, bodyRound, roundsOk, shotsOk, claude, insert) ==
  /\ req[r].pc = "idle"
  /\ Serve
  /\ LET s == [Idle EXCEPT !.kind = "insights", !.auth = auth,
                           !.bodyUser = bodyUser]
         userId == ResolveUserId(auth, bodyUser)
         roundIds == RecentRoundIds(userId)
         stored == env.claudeKey /\ env.supabase /\ userId # "" /\ roundsOk
                   /\ roundIds # <<>> /\ shotsOk /\ claude \in {"json", "text"}
                   /\ insert = "ok"
         body == [kind |-> "insights", user |-> userId, analyzedRounds |-> roundIds,
                  parsed |-> claude = "json",
                  insightsId |-> IF insert = "ok" THEN Len(insights) + 1 ELSE 0]
     IN /\ req' = [req EXCEPT ![r] =
             IF ~env.claudeKey
             THEN OuterCatch(s, "Missing CLAUDE_API_KEY environment variable")
             ELSE IF ~env.supabase
             THEN OuterCatch(s, "Missing Supabase credentials in environment variables")
             ELSE IF userId = ""
             THEN OuterCatch(s, "Unable to determine user ID")
             ELSE IF ~roundsOk
             THEN OuterCatch(s, "Could not retrieve your recent rounds data")
             ELSE IF roundIds = <<>>
             THEN OuterCatch(s, "No completed rounds found")
             ELSE IF ~shotsOk
             THEN OuterCatch(s, "Could not retrieve shot data for your rounds")
             ELSE IF claude \notin {"json", "text"}
             THEN OuterCatch(s, "Claude API error")
             ELSE IF insert # "ok"
             THEN OuterCatch(s, "Could not store insights")
             ELSE Respond(s, 200, body)]
        /\ insights' = IF stored
                       THEN Append(insights,
                              [id |-> Len(insights) + 1, profile_id |-> userId,
                               round_id |-> bodyRound])
                       ELSE insights
  /\ UNCHANGED <<clientVars, clock, ticks, env, courses, rounds>>

\* the whole insights handler: keys, user, rounds, shots, Claude, insert
Insights(r, auth, bodyUser, bodyRound, roundsOk, shotsOk, claude, insert) ==
  /\ req[r].pc = "idle"
  /\ Serve
  /\ LET s == [Idle EXCEPT !.kind = "insights", !.auth = auth,
                           !.bodyUser = bodyUser]
         userId == ResolveUserId(auth, bodyUser)
         roundIds == RecentRoundIds(userId)
         stored == env.claudeKey /\ env.supabase /\ userId # "" /\ roundsOk
                   /\ roundIds # <<>> /\ shotsOk /\ claude \in {"json", "text"}
                   /\ insert = "ok"
         body == [kind |-> "insights", user |-> userId, analyzedRounds |-> roundIds,
                  parsed |-> claude = "json",
                  insightsId |-> IF insert = "ok" THEN Len(insights) + 1 ELSE 0]
     IN /\ req' = [req EXCEPT ![r] =
             IF ~env.claudeKey
             THEN OuterCatch(s, "Missing CLAUDE_API_KEY environment variable")
             ELSE IF ~env.supabase
             THEN OuterCatch(s, "Missing Supabase credentials in environment variables")
             ELSE IF userId = ""
             THEN OuterCatch(s, "Unable to determine user ID")
             ELSE IF ~roundsOk
             THEN OuterCatch(s, "Could not retrieve your recent rounds data")
             ELSE IF roundIds = <<>>
             THEN OuterCatch(s, "No completed rounds found")
             ELSE IF ~shotsOk
             THEN OuterCatch(s, "Could not retrieve shot data for your rounds")
             ELSE IF claude \notin {"json", "text"}
             THEN OuterCatch(s, "Claude API error")
             ELSE Respond(s, 200, body)]
        /\ insights' = IF stored
                       THEN Append(insights,
                              [id |-> Len(insights) + 1, profile_id |-> userId,
                               round_id |-> bodyRound])
                       ELSE insights
  /\ UNCHANGED <<clientVars, clock, ticks, env, courses, rounds>>

----------------------------------------------------------------------------
(* The mobile client before any call *)

\* courseService: no call in progress
SvcIdle ==
  [pc |-> "idle", fn |-> "", term |-> <<>>, userId |-> "", limit |-> 0,
   courseId |-> "", token |-> FALSE, edgeCalls |-> 0, queries |-> 0,
   ids |-> <<>>, edge |-> "", via |-> "", result |-> [kind |-> "none"]]

\* const [totalHoles] = useState(18)
totalHoles == 18

Holes == 1..totalHoles

\* the cells of the shot table that are pressed: a type and an outcome
ShotKinds ==
  {[type |-> "Tee Shot", result |-> "On Target"],
   [type |-> "Putts", result |-> "Slightly Off"]}

\* a hole of initialHoleState: no shots, every count 0
EmptyHole == [shots |-> <<>>, shotCounts |-> [k \in ShotKinds |-> 0]]

initialHoleState == [h \in Holes |-> EmptyHole]

\* useState(null) of round, and the round createRound gives
NoRound == [id |-> ""]

NewRound == [id |-> "g9"]

\* AsyncStorage.getItem gives null for a key that is not set
NoItem == [present |-> FALSE]

\* JSON.stringify of a value that holds strings, numbers, arrays and objects
Stringify(x) == [present |-> TRUE, json |-> x]

\* JSON.parse of a stored string
Parse(item) == item.json

\* the screen as mounted, before the initialization effect has run
TrkIdle ==
  [round |-> NoRound, currentHole |-> 1, holeData |-> initialHoleState,
   loading |-> FALSE, screen |-> "TrackerScreen", pc |-> "idle",
   persisted |-> FALSE, storedHoleData |-> <<>>, holeNum |-> 0, failedAt |-> "",
   pending |-> <<>>, presses |-> 0]

ClientInit ==
  /\ svc = SvcIdle
  /\ trk = TrkIdle
  /\ storage = [holes |-> NoItem, currentRound |-> NoItem]
  /\ rsvc = [calls |-> <<>>, completed |-> FALSE]

----------------------------------------------------------------------------
(* The edge handlers, one invocation at a time *)

\* the deployments: every secret set; the Supabase credentials missing; the
\* keys of the two third parties missing; every secret set during an outage
\* of the upstream golf API
Envs ==
  {[supabase |-> TRUE, golfKey |-> TRUE, claudeKey |-> TRUE, upstreamUp |-> TRUE],
   [supabase |-> FALSE, golfKey |-> TRUE, claudeKey |-> TRUE, upstreamUp |-> TRUE],
   [supabase |-> TRUE, golfKey |-> FALSE, claudeKey |-> FALSE, upstreamUp |-> TRUE],
   [supabase |-> TRUE, golfKey |-> TRUE, claudeKey |-> TRUE, upstreamUp |-> FALSE]}

EnvInit == env \in Envs

EdgeInit ==
  /\ clock = 0
  /\ ticks = 0
  /\ EnvInit
  /\ courses \in [CourseIds -> InitRows]
  /\ \A c \in CourseIds : courses[c].id = c
  /\ rounds = Rounds0
  /\ insights = <<>>
  /\ req = [r \in Reqs |-> Idle]
  /\ served = 0
  /\ ClientInit

\* the last path segment and the courseId query parameter of a request
Paths(kind) ==
  {<<FunctionName(kind), "">>, <<FunctionName(kind), "c1">>, <<"", "">>,
   <<"c1", "">>, <<UnknownId, "">>}

Init == EdgeInit

Next ==
  \/ \E kind \in DetailKinds \cup {"details-db"}, apiParam \in {"", "a1"},
        refresh \in BOOLEAN, d \in Elapsed :
       \E path \in Paths(kind) :
         Receive("r1", kind, path[1], path[2], apiParam, refresh, d)
  \/ \E ok \in BOOLEAN : Lookup("r1", ok)
  \/ \E o \in Outcomes("details-api") \cup Outcomes("detailed-info") : Fetch("r1", o)
  \/ \E ok \in BOOLEAN : Write("r1", ok)
  \/ \E ok \in BOOLEAN : Mark("r1", ok)
  \/ \E ok \in BOOLEAN : Refresh("r1", ok)
  \/ Reset("r1")
  \/ \E query \in {"", "ol", "old"}, userId \in {"", "u2"}, limit \in {DefaultLimit, 1},
        noRecent \in BOOLEAN, auth \in {"none", "valid", "error"},
        recentOk \in BOOLEAN, listOk \in BOOLEAN :
       GetCourses("r1", query, userId, limit, noRecent, auth, recentOk, listOk)
  \/ \E auth \in AuthOutcomes, body \in Bodies, roundsOk \in BOOLEAN,
        shotsOk \in BOOLEAN, claude \in {"json", "text", "status", "reject"},
        insert \in {"ok", "error", "throws"} :
       Insights("r1", auth, body.userId, body.roundId, roundsOk, shotsOk, claude,
                insert)

Spec == Init /\ [][Next]_vars

----------------------------------------------------------------------------
(* Properties of the edge handlers, for the specification Spec *)

Done(r) == req[r].pc = "done"

\* C1 (as amended): every 500 response carries the exception's message; it
\* carries a timestamp in the API and nested versions of get-course-details,
\* in get-course-detailed-info and in the insights handler, and carries none
\* in get-courses and in the database-only get-course-details.
C1_Uncaught500 ==
  \A r \in Reqs :
    (Done(r) /\ req[r].status = 500) =>
      /\ req[r].body.kind = "error"
      /\ req[r].body.message # ""
      /\ req[r].body.timestamp <=>
           req[r].kind \in {"details-api", "details-nested", "detailed-info", "insights"}

\* C1 as stated: every 500 response of every edge handler has a timestamp.
C1_Original ==
  \A r \in Reqs :
    (Done(r) /\ req[r].status = 500) =>
      (req[r].body.kind = "error" /\ req[r].body.message # "" /\ req[r].body.timestamp)

\* get-courses has answered 500 with a message and no timestamp
C1_Witness ==
  \E r \in Reqs :
    /\ Done(r) /\ req[r].kind = "get-courses" /\ req[r].status = 500
    /\ req[r].body.message # "" /\ ~req[r].body.timestamp

\* C2: in get-course-details and get-course-detailed-info, when a row was found
\* and the refresh then fails (upstream not OK, payload invalid or incomplete,
\* update error), the answer is 200 with the row as it was found.
C2_RefreshFailureSwallowed ==
  \A r \in Reqs :
    (Done(r) /\ req[r].kind \in DetailKinds /\ IsRow(req[r].found)
       /\ req[r].failure \in {"upstream", "payload", "update"}) =>
      /\ req[r].status = 200
      /\ req[r].body.kind = "course"
      /\ req[r].body.row = req[r].found

\* the database update failed after a good upstream answer, and the stored
\* row went out with status 200
C2_Witness ==
  \E r \in Reqs :
    /\ Done(r) /\ req[r].kind \in DetailKinds /\ req[r].failure = "update"
    /\ req[r].apiCalls = 1 /\ req[r].status = 200
    /\ req[r].body.row = req[r].found

\* no identifier: the last path segment is the function's name or empty, and
\* no courseId (for detailed-info: and no apiCourseId) parameter was sent
NoIdentifier(s) ==
  /\ s.lastSeg \in {FunctionName(s.kind), ""}
  /\ s.queryId = ""
  /\ s.apiParam = ""

C4_MissingIdentifier ==
  \A r \in Reqs :
    (req[r].pc # "idle" /\ req[r].kind \in DetailKinds \cup {"details-db"}
       /\ NoIdentifier(req[r])) =>
      /\ Done(r)
      /\ req[r].dbCalls = 0 /\ req[r].apiCalls = 0
      /\ req[r].body.kind = "error" /\ req[r].body.message # ""
      /\ req[r].status = IF env.supabase THEN 400 ELSE 500

\* C4 as stated: a request without an identifier is answered 400.
C4_Original ==
  \A r \in Reqs :
    (Done(r) /\ req[r].kind \in DetailKinds \cup {"details-db"}
       /\ NoIdentifier(req[r])) =>
      (req[r].status = 400 /\ req[r].dbCalls = 0 /\ req[r].apiCalls = 0)

\* get-course-detailed-info, called by its bare name, has answered 400
C4_Witness ==
  \E r \in Reqs :
    /\ Done(r) /\ req[r].kind = "detailed-info" /\ NoIdentifier(req[r])
    /\ req[r].lastSeg = "get-course-detailed-info"
    /\ req[r].status = 400 /\ req[r].dbCalls = 0

\* C5: in every course-detail handler, an invocation that queried the database
\* and ends without a course row answers 404 with an error body; a 200 answer
\* carries a row read from the courses table (the row the lookup found, or the
\* row read back after this invocation's update).
C5_NotFoundOr200 ==
  \A r \in Reqs :
    (Done(r) /\ req[r].kind \in DetailKinds \cup {"details-db"}) =>
      /\ (req[r].dbCalls > 0 /\ ~IsRow(req[r].existing)) =>
           (req[r].status = 404 /\ req[r].body.kind = "error"
              /\ req[r].body.message # "")
      /\ req[r].status = 200 =>
           /\ req[r].dbCalls > 0
           /\ IsRow(req[r].found)
           /\ IsRow(req[r].body.row)
           /\ \/ req[r].body.row = req[r].found
              \/ req[r].wrote /\ req[r].body.row = courses[req[r].found.id]

\* a request for an id no row has went through the lookup and got 404
C5_Witness ==
  \E r \in Reqs :
    /\ Done(r) /\ req[r].kind = "details-api" /\ req[r].courseId = UnknownId
    /\ req[r].dbCalls = 1 /\ req[r].needs /\ req[r].apiCalls = 0
    /\ req[r].status = 404

\* the invocation is past its lookup, which found a row
Decided(r) == req[r].pc \notin {"idle", "lookup"} /\ IsRow(req[r].found)

\* C6: without refresh=true and with a row complete for the handler (tees and
\* holes for get-course-details, poi for get-course-detailed-info), a refresh
\* is decided exactly when now - updated_at exceeds 90 days; a row without
\* updated_at is never refreshed for its age.
C6_FreshnessThreshold ==
  \A r \in Reqs :
    (Decided(r) /\ ~req[r].refresh
       /\ \/ req[r].kind \in {"details-api", "details-nested"}
             /\ req[r].found.tees > 0 /\ req[r].found.holes > 0
          \/ req[r].kind = "detailed-info" /\ PoiLen(req[r].found.poi) > 0) =>
      /\ req[r].found.updated_at = NoTime => ~req[r].needs
      /\ req[r].found.updated_at # NoTime =>
           (req[r].needs <=> req[r].now - req[r].found.updated_at > 90)

\* a complete row exactly 90 days old was not refreshed
C6_Witness ==
  \E r \in Reqs :
    /\ Decided(r) /\ ~req[r].refresh /\ req[r].kind = "details-api"
    /\ req[r].found.tees > 0 /\ req[r].found.holes > 0
    /\ req[r].found.updated_at # NoTime
    /\ req[r].now - req[r].found.updated_at = 90
    /\ ~req[r].needs /\ req[r].apiCalls = 0

\* C8 (as amended): the analysed user of a 200 answer, who is also the
\* profile_id of the insight it stored, is the token's user when getUser gave
\* a user, and is the body's userId when no Authorization header was sent or
\* when getUser returned an error or threw; a header for which getUser gives
\* neither a user nor an error ends in 500.
C8_AnalysedUser ==
  \A r \in Reqs :
    (Done(r) /\ req[r].kind = "insights") =>
      /\ req[r].auth = "nouser" => req[r].status = 500
      /\ req[r].status = 200 =>
           /\ req[r].auth = "valid" => req[r].body.user = TokenUser
           /\ req[r].auth \in {"none", "error", "throws"} =>
                req[r].body.user = req[r].bodyUser
           /\ req[r].body.insightsId > 0 =>
                insights[req[r].body.insightsId].profile_id = req[r].body.user

\* C8 as stated: with an Authorization header, the analysed user is the
\* token's user.
C8_Original ==
  \A r \in Reqs :
    (Done(r) /\ req[r].kind = "insights" /\ req[r].status = 200
       /\ req[r].auth # "none") =>
      req[r].body.user = TokenUser

\* a header was sent, getUser returned an error, and the insight was stored
\* under the body's userId
C8_Witness ==
  \E r \in Reqs :
    /\ Done(r) /\ req[r].kind = "insights" /\ req[r].status = 200
    /\ req[r].auth = "error" /\ req[r].bodyUser = "u2"
    /\ req[r].body.insightsId > 0
    /\ insights[req[r].body.insightsId].profile_id = "u2"

\* an insights request that reaches the insert, and whose insert gives an
\* error or throws
InsertFails ==
  \E auth \in AuthOutcomes, body \in Bodies, claude \in {"json", "text"},
     insert \in {"error", "throws"} :
    /\ env.claudeKey /\ env.supabase
    /\ RecentRoundIds(ResolveUserId(auth, body.userId)) # <<>>
    /\ Insights("r1", auth, body.userId, body.roundId, TRUE, TRUE, claude, insert)

\* C15: when the insert into the insights table gives an error or throws, the
\* insights request still answers 200 with the generated insights and the
\* analysed rounds, its insightsId is null, and no record is stored.
C15_InsertFailureSwallowed ==
  [][InsertFails =>
       /\ req'["r1"].pc = "done"
       /\ req'["r1"].status = 200
       /\ req'["r1"].body.kind = "insights"
       /\ req'["r1"].body.analyzedRounds # <<>>
       /\ req'["r1"].body.insightsId = 0
       /\ insights' = insights]_vars

\* an insights request answered 200 without an insightsId while the insights
\* table is still empty
C15_Witness ==
  /\ Done("r1") /\ req["r1"].kind = "insights" /\ req["r1"].status = 200
  /\ req["r1"].body.insightsId = 0 /\ insights = <<>>

\* the two versions of get-course-details that ask the upstream API
RefreshKinds == {"details-api", "details-nested"}

\* the transformed course of a payload, by the version of the handler
Transformed(s, p) ==
  IF s.kind = "details-api" THEN TransformApi(p, s.now) ELSE TransformNested(p, s.now)

\* a non-empty name, a non-zero par, at least one tee and at least one hole
Complete(t) == t.name # "" /\ t.par # 0 /\ t.tees >= 1 /\ t.holes >= 1

\* C19: get-course-details goes on to write upstream data to the courses
\* table only when the transformed course has a non-empty name, a non-zero
\* par, at least one tee and at least one hole; a request whose transformed
\* course lacks one of them changes no row.
C19_WritesOnlyComplete ==
  /\ [][\A o \in Outcomes("details-api") :
         (req["r1"].kind \in RefreshKinds /\ Fetch("r1", o)) =>
           (req'["r1"].pc \in {"update", "insert"} <=>
              (o.t = "ok" /\ o.payload.course
                 /\ Complete(Transformed(req["r1"], o.payload))
                 /\ (IsRow(req["r1"].existing) \/ req["r1"].apiId # "")))]_vars
  /\ [][(req["r1"].kind \in RefreshKinds /\ courses' # courses) =>
          req["r1"].pc \in {"update", "insert"}]_vars

\* the upstream answered for a stale row with a payload that was rejected:
\* the request wrote nothing and answered 200 with the row as stored
C19_Witness ==
  /\ Done("r1") /\ req["r1"].kind \in RefreshKinds /\ req["r1"].apiCalls = 1
  /\ req["r1"].failure = "payload" /\ ~req["r1"].wrote
  /\ req["r1"].status = 200 /\ req["r1"].body.row = courses["c1"]

MarkedChecked(row) == IsRow(row) /\ row.poi = PoiOf(<<>>)

\* C21 as stated: once get-course-detailed-info has marked a course as checked
\* after an upstream 404, a later request for that course without
\* refresh=true and within the 90 days makes no upstream call.
C21_Original ==
  (/\ req["r1"].kind = "detailed-info"
   /\ req["r1"].pc \notin {"idle", "lookup"}
   /\ MarkedChecked(req["r1"].found)
   /\ ~req["r1"].refresh
   /\ req["r1"].now - req["r1"].found.updated_at <= FRESHNESS_THRESHOLD_DAYS)
    => req["r1"].apiCalls = 0

\* the row a get-course-details request found still holds the tee and hole
\* data it was created with: every refresh by get-course-details renames the
\* course of the model, and get-course-detailed-info writes poi and
\* updated_at only
TeeDataSinceCreation(row) ==
  IsRow(row) /\ row.name = "Old" /\ row.updated_at # NoTime

\* C22 as stated: tee and hole data that was last fetched from upstream more
\* than 90 days ago is stale for the next get-course-details request, which
\* then asks the upstream API when it has an API key and an api_course_id,
\* also when get-course-detailed-info has written the row in between.
C22_Original ==
  (/\ req["r1"].kind \in RefreshKinds
   /\ req["r1"].pc \notin {"idle", "lookup"}
   /\ TeeDataSinceCreation(req["r1"].found)
   /\ req["r1"].now - req["r1"].found.created_at > FRESHNESS_THRESHOLD_DAYS
   /\ env.golfKey /\ req["r1"].found.api_course_id # "")
    => (req["r1"].needs /\ req["r1"].apiCalls = 1)

----------------------------------------------------------------------------
(* Two concurrent invocations of get-course-details on one row *)

\* the upstream's answers in the concurrent runs: it rejects, it fails, it
\* sends a complete course
ConcOutcomes ==
  {[t |-> "reject"], [t |-> "status", code |-> 500],
   [t |-> "ok", payload |-> [course |-> TRUE, name |-> TRUE, par |-> TRUE,
                             tees |-> 1, holes |-> 1]]}

\* every secret is set, and the one row is at the threshold's age
ConcInit ==
  /\ clock = FRESHNESS_THRESHOLD_DAYS
  /\ ticks = 0
  /\ env = [supabase |-> TRUE, golfKey |-> TRUE, claudeKey |-> TRUE,
            upstreamUp |-> TRUE]
  /\ courses = [c \in CourseIds |-> FullRow]
  /\ rounds = Rounds0
  /\ insights = <<>>
  /\ req = [r \in Reqs |-> Idle]
  /\ served = 0
  /\ ClientInit

ConcNext ==
  \E r \in Reqs :
    \/ \E refresh \in BOOLEAN, d \in Elapsed :
         Receive(r, "details-api", "c1", "", "", refresh, d)
    \/ \E ok \in BOOLEAN : Lookup(r, ok)
    \/ \E o \in ConcOutcomes : Fetch(r, o)
    \/ \E ok \in BOOLEAN : Write(r, ok)
    \/ \E ok \in BOOLEAN : Refresh(r, ok)
    \/ Reset(r)

ConcSpec == ConcInit /\ [][ConcNext]_vars

\* C9: no lock and no shared state: whether an invocation of get-course-details
\* sends its upstream request depends only on the row its own lookup returned,
\* whatever other invocations are doing, and a successful update stores this
\* invocation's merged row over whatever the table holds, so the later of two
\* concurrent writes wins.
C9_NoLock ==
  /\ [](\A r \in Reqs :
          Decided(r) =>
            (req[r].apiCalls = 1 <=>
               /\ req[r].refresh \/ req[r].now - req[r].found.updated_at > 90
               /\ req[r].found.api_course_id # ""))
  /\ [][\A r \in Reqs :
          (req[r].pc = "update" /\ req'[r].pc = "refresh") =>
            courses'[req[r].existing.id] = req[r].merged]_vars

\* both invocations found the same stale row, each sent its own upstream
\* request and each wrote; the row in the table is the one of the invocation
\* that started first and wrote last
C9_Witness ==
  /\ req["r1"].found = req["r2"].found
  /\ ~req["r1"].refresh /\ ~req["r2"].refresh
  /\ req["r1"].apiCalls = 1 /\ req["r2"].apiCalls = 1
  /\ req["r1"].wrote /\ req["r2"].wrote
  /\ req["r1"].now < req["r2"].now
  /\ courses["c1"] = req["r1"].merged
  /\ courses["c1"] # req["r2"].merged

----------------------------------------------------------------------------
(* courseService: the client's wrappers of the edge functions *)

\* the limit of the fallback query of searchCourses
SearchFallbackLimit == 15

\* getRecentCourses(userId, limit = 5)
RecentDefaultLimit == 5

\* search terms as typed, character by character
Terms == {<<>>, <<" ", "o", "l", " ">>, <<"o", "l", "d">>, <<"n", "e", "w", " ">>}

\* String.prototype.trim
RECURSIVE TrimLeft(_)
TrimLeft(s) == IF s # <<>> /\ Head(s) = " " THEN TrimLeft(Tail(s)) ELSE s

RECURSIVE TrimRight(_)
TrimRight(s) ==
  IF s # <<>> /\ s[Len(s)] = " " THEN TrimRight(SubSeq(s, 1, Len(s) - 1)) ELSE s

Trim(s) == TrimRight(TrimLeft(s))

\* a course name in lower case, character by character
NameChars(name) == IF name = "Old" THEN <<"o", "l", "d">> ELSE <<"n", "e", "w">>

\* name.ilike.%term%: the term occurs in the name
Ilike(name, term) ==
  \E i \in 1..(Len(NameChars(name)) - Len(term) + 1) :
    SubSeq(NameChars(name), i, i + Len(term) - 1) = term

SvcList(items) == [kind |-> "list", items |-> items]

\* what a wrapper's catch block returns: [] or, for getCourseById, null
SvcCaught(fn) == IF fn = "getCourseById" THEN [kind |-> "null"] ELSE SvcList(<<>>)

SvcDone(s, via, result) == [s EXCEPT !.pc = "done", !.via = via, !.result = result]

\* what the edge function can answer: the fetch rejects; a status that is not
\* OK; a 200 whose body response.json() cannot parse; a 200 whose JSON lacks
\* the field, or has it
EdgeAnswers ==
  {[t |-> "reject"], [t |-> "status", code |-> 404], [t |-> "status", code |-> 500],
   [t |-> "garbled"],
   [t |-> "ok", present |-> FALSE, items |-> <<>>],
   [t |-> "ok", present |-> TRUE, items |-> <<>>],
   [t |-> "ok", present |-> TRUE, items |-> <<Listed(FullRow)>>]}

\* the start of a wrapper, to its fetch: the guards and getAuthToken
SvcCall(fn, term, userId, limit, courseId, token) ==
  /\ svc.pc = "idle"
  /\ fn # "searchCourses" => term = <<>>
  /\ fn = "getCourseById" <=> courseId # ""
  /\ fn # "getRecentCourses" => (userId = "" /\ limit = RecentDefaultLimit)
  /\ LET s == [SvcIdle EXCEPT !.fn = fn, !.term = term, !.userId = userId,
                              !.limit = limit, !.courseId = courseId,
                              !.token = token]
     IN svc' =
          IF fn = "searchCourses" /\ Len(Trim(term)) < 3
          THEN SvcDone(s, "guard", SvcList(<<>>))
          ELSE IF fn = "getRecentCourses" /\ userId = ""
          THEN SvcDone(s, "guard", SvcList(<<>>))
          ELSE [s EXCEPT !.pc = "fetch", !.edgeCalls = 1]
  /\ UNCHANGED <<edgeVars, trkVars>>

\* where a wrapper goes when the response is not OK
SvcFallback(s) ==
  [s EXCEPT !.pc = IF s.fn = "getRecentCourses" THEN "rounds" ELSE "query",
            !.queries = @ + 1]

\* the value a wrapper returns from an OK response
SvcFromEdge(s, o) ==
  IF s.fn = "getCourseById"
  THEN [kind |-> "json", present |-> o.present, items |-> o.items]
  ELSE SvcList(IF o.present THEN o.items ELSE <<>>)

\* a fetch whose rejection is treated like a status that is not OK
SvcFetchRejectFallsBack(o) ==
  /\ svc.pc = "fetch"
  /\ o \in EdgeAnswers
  /\ svc' = LET s == [svc EXCEPT !.edge = IF o.t = "status" THEN "not-ok" ELSE o.t]
            IN IF o.t \in {"reject", "status"} THEN SvcFallback(s)
               ELSE IF o.t = "garbled" THEN SvcDone(s, "catch", SvcCaught(s.fn))
               ELSE SvcDone(s, "edge", SvcFromEdge(s, o))
  /\ UNCHANGED <<edgeVars, trkVars>>

\* await fetch(...) settles, and on an OK response await response.json()
SvcFetch(o) ==
  /\ svc.pc = "fetch"
  /\ o \in EdgeAnswers
  /\ svc' = LET s == [svc EXCEPT !.edge = IF o.t = "status" THEN "not-ok" ELSE o.t]
            IN CASE o.t \in {"reject", "garbled"} ->
                      SvcDone(s, "catch", SvcCaught(s.fn))
                 [] o.t = "status" -> SvcFallback(s)
                 [] OTHER -> SvcDone(s, "edge", SvcFromEdge(s, o))
  /\ UNCHANGED <<edgeVars, trkVars>>

\* uniqueCourseIds: the rounds' course ids, each once, at most limit of them
RECURSIVE UniqueCourseIds(_, _, _)
UniqueCourseIds(rs, ids, limit) ==
  IF rs = <<>> THEN ids
  ELSE LET c == Head(rs).course_id
       IN IF (\A i \in 1..Len(ids) : ids[i] # c) /\ Len(ids) < limit
          THEN UniqueCourseIds(Tail(rs), Append(ids, c), limit)
          ELSE UniqueCourseIds(Tail(rs), ids, limit)

\* orderedCourses: the rows of the ids that the courses query returned
RECURSIVE OrderedCourses(_, _)
OrderedCourses(ids, tbl) ==
  IF ids = <<>> THEN <<>>
  ELSE (IF Head(ids) \in DOMAIN tbl THEN <<Listed(tbl[Head(ids)])>> ELSE <<>>)
         \o OrderedCourses(Tail(ids), tbl)

\* the fallback's first query of getRecentCourses: the user's completed rounds
SvcRounds(ok) ==
  /\ svc.pc = "rounds"
  /\ svc' = LET rs == CompletedRounds(svc.userId)
            IN IF ~ok THEN SvcDone(svc, "catch", SvcCaught(svc.fn))
               ELSE IF rs = <<>> THEN SvcDone(svc, "fallback", SvcList(<<>>))
               ELSE [svc EXCEPT !.pc = "query", !.queries = @ + 1,
                                !.ids = UniqueCourseIds(rs, <<>>, svc.limit)]
  /\ UNCHANGED <<edgeVars, trkVars>>

\* what the direct query on the courses table gives each wrapper
DirectResult(s) ==
  LET all == {courses[c] : c \in DOMAIN courses}
  IN CASE s.fn = "searchCourses" ->
            SvcList(ListAll(Take(OrderByName(
              {x \in all : Ilike(x.name, Trim(s.term))}), SearchFallbackLimit)))
       [] s.fn = "getAllCourses" -> SvcList(ListAll(OrderByName(all)))
       [] s.fn = "getRecentCourses" -> SvcList(OrderedCourses(s.ids, courses))
       [] OTHER -> [kind |-> "row", row |-> SelectById(courses, s.courseId)]

\* a direct query whose error leaves the wrapper as a rejection
SvcQueryUncaught(ok) ==
  /\ svc.pc = "query"
  /\ svc' = IF ~ok \/ (svc.fn = "getCourseById"
                         /\ ~IsRow(SelectById(courses, svc.courseId)))
            THEN SvcDone(svc, "catch", [kind |-> "rejected"])
            ELSE SvcDone(svc, "fallback", DirectResult(svc))
  /\ UNCHANGED <<edgeVars, trkVars>>

\* the direct query on the courses table settles; .single() without a row is
\* an error
SvcQuery(ok) ==
  /\ svc.pc = "query"
  /\ svc' = IF ~ok \/ (svc.fn = "getCourseById"
                         /\ ~IsRow(SelectById(courses, svc.courseId)))
            THEN SvcDone(svc, "catch", SvcCaught(svc.fn))
            ELSE SvcDone(svc, "fallback", DirectResult(svc))
  /\ UNCHANGED <<edgeVars, trkVars>>

\* the wrapper's promise resolves
SvcReturn ==
  /\ svc.pc = "done"
  /\ svc' = SvcIdle
  /\ UNCHANGED <<edgeVars, trkVars>>

\* the tables the client runs against
SvcInit ==
  /\ clock = 0
  /\ ticks = 0
  /\ env = [supabase |-> TRUE, golfKey |-> TRUE, claudeKey |-> TRUE,
            upstreamUp |-> TRUE]
  /\ courses \in [CourseIds -> InitRows]
  /\ \A c \in CourseIds : courses[c].id = c
  /\ rounds = Rounds0
  /\ insights = <<>>
  /\ req = [r \in Reqs |-> Idle]
  /\ served = 0
  /\ ClientInit

SvcNext ==
  \/ \E fn \in {"searchCourses", "getRecentCourses", "getAllCourses", "getCourseById"},
        term \in Terms, userId \in {"", "u1", "u3"}, limit \in {RecentDefaultLimit, 1},
        courseId \in {"", "c1", UnknownId}, token \in BOOLEAN :
       SvcCall(fn, term, userId, limit, courseId, token)
  \/ \E o \in EdgeAnswers : SvcFetch(o)
  \/ \E ok \in BOOLEAN : SvcRounds(ok)
  \/ \E ok \in BOOLEAN : SvcQuery(ok)
  \/ SvcReturn

SvcSpec == SvcInit /\ [][SvcNext]_vars

\* C7 (as amended): a wrapper makes its direct database query exactly when the
\* edge function answered with a status that is not OK, and then returns that
\* query's result, or its empty value when the query fails; when the fetch
\* rejects it makes no direct query and returns its empty value ([] or null).
C7_Fallback ==
  svc.pc = "done" =>
    /\ svc.queries > 0 <=> svc.edge = "not-ok"
    /\ svc.via = "fallback" => (svc.edge = "not-ok" /\ svc.result = DirectResult(svc))
    /\ svc.edge = "not-ok" => svc.via \in {"fallback", "catch"}
    /\ svc.edge = "reject" =>
         (svc.via = "catch" /\ svc.queries = 0 /\ svc.result = SvcCaught(svc.fn))

\* C7 as stated: whenever the edge call fails, by status or by rejection, the
\* direct query is made.
C7_Original ==
  (svc.pc = "done" /\ svc.edge \in {"not-ok", "reject"}) => svc.queries > 0

\* the fetch of getCourseById rejected for a course that is in the table, and
\* the wrapper returned null without a query
C7_Witness ==
  /\ svc.pc = "done" /\ svc.fn = "getCourseById" /\ svc.courseId = "c1"
  /\ svc.edge = "reject" /\ svc.queries = 0 /\ svc.result = [kind |-> "null"]

\* a step in which something fails: the fetch rejects, the body does not
\* parse, the rounds query or the courses query gives an error
SvcFails ==
  \/ \E o \in {a \in EdgeAnswers : a.t \in {"reject", "garbled"}} : SvcFetch(o)
  \/ SvcRounds(FALSE)
  \/ SvcQuery(FALSE)
  \/ (svc.fn = "getCourseById" /\ ~IsRow(SelectById(courses, svc.courseId))
        /\ SvcQuery(TRUE))

\* C14: no wrapper of courseService rejects; when the edge call, the parsing of
\* its response or a fallback query fails, searchCourses, getRecentCourses and
\* getAllCourses resolve to [] and getCourseById resolves to null.
C14_NeverRejects ==
  /\ [](svc.result.kind # "rejected")
  /\ [][SvcFails =>
          /\ svc'.pc = "done"
          /\ svc'.result = IF svc.fn = "getCourseById" THEN [kind |-> "null"]
                           ELSE [kind |-> "list", items |-> <<>>]]_vars

\* getCourseById fell back to the direct query, the query failed, and the
\* wrapper resolved to null
C14_Witness ==
  /\ svc.pc = "done" /\ svc.fn = "getCourseById" /\ svc.edge = "not-ok"
  /\ svc.queries = 1 /\ svc.via = "catch" /\ svc.result = [kind |-> "null"]

----------------------------------------------------------------------------
(* courseService served by the deployed get-courses function *)

\* one course more than get-courses returns without a limit parameter
ManyIds ==
  {"c1", "c2", "c3", "c4", "c5", "c6", "c7", "c8", "c10", "c11", "c12", "c13",
   "c14", "c15", "c16", "c17", "c18", "c19", "c20", "c21", "c22"}

FewIds == {"c1", "c2", "c3"}

\* the row of course c: some are named "New", and c3 has no tees
CourseRow(c) ==
  [FullRow EXCEPT !.id = c, !.api_course_id = "",
                  !.name = IF c \in {"c2", "c5", "c21"} THEN "New" ELSE "Old",
                  !.tees = IF c = "c3" THEN 0 ELSE 1]

\* rounds on several courses: u1 played c2, then c1, then c2 again, and has an
\* unfinished round on c3; u2 played c3 and then a course that is gone
AppRounds ==
  {[id |-> "g1", profile_id |-> "u1", course_id |-> "c2", created_at |-> 1,
    is_complete |-> TRUE],
   [id |-> "g2", profile_id |-> "u1", course_id |-> "c1", created_at |-> 2,
    is_complete |-> TRUE],
   [id |-> "g3", profile_id |-> "u1", course_id |-> "c2", created_at |-> 3,
    is_complete |-> TRUE],
   [id |-> "g4", profile_id |-> "u1", course_id |-> "c3", created_at |-> 4,
    is_complete |-> FALSE],
   [id |-> "g5", profile_id |-> "u2", course_id |-> "c3", created_at |-> 1,
    is_complete |-> TRUE],
   [id |-> "g6", profile_id |-> "u2", course_id |-> UnknownId, created_at |-> 5,
    is_complete |-> TRUE]}

\* the limits getRecentCourses is called with
AppLimits == {0, 1, 2, RecentDefaultLimit}

\* the fetch of getAllCourses or getRecentCourses is answered by get-courses
\* running against the tables: a 500 without credentials, else a 200 whose
\* body holds courses and, when there are any, recentCourses
SvcServed(recentOk, listOk) ==
  /\ svc.pc = "fetch"
  /\ svc.fn \in {"getAllCourses", "getRecentCourses"}
  /\ LET recent == svc.fn = "getRecentCourses"
         userId == IF recent THEN svc.userId ELSE ""
         limit == IF recent THEN svc.limit ELSE DefaultLimit
         fromAuth == IF svc.token THEN TokenUser ELSE ""
         effectiveUserId == IF userId # "" THEN userId ELSE fromAuth
         body == [courses |-> FoundCourses("", limit, listOk),
                  recentCourses |-> RecentCourses(effectiveUserId, FALSE, limit,
                                                  recentOk)]
     IN svc' =
          IF ~env.supabase THEN SvcFallback([svc EXCEPT !.edge = "not-ok"])
          ELSE SvcDone([svc EXCEPT !.edge = "ok"], "edge",
                       SvcList(IF recent THEN body.recentCourses ELSE body.courses))
  /\ UNCHANGED <<edgeVars, trkVars>>

AppInit ==
  /\ clock = 0
  /\ ticks = 0
  /\ env \in {e \in Envs : e.golfKey /\ e.upstreamUp}
  /\ courses \in {[c \in FewIds |-> CourseRow(c)], [c \in ManyIds |-> CourseRow(c)]}
  /\ rounds = AppRounds
  /\ insights = <<>>
  /\ req = [r \in Reqs |-> Idle]
  /\ served = 0
  /\ ClientInit

AppNext ==
  \/ \E fn \in {"getRecentCourses", "getAllCourses"}, userId \in {"", "u1", "u2", "u3"},
        limit \in AppLimits, token \in BOOLEAN :
       SvcCall(fn, <<>>, userId, limit, "", token)
  \/ \E recentOk \in BOOLEAN, listOk \in BOOLEAN : SvcServed(recentOk, listOk)
  \/ \E o \in {a \in EdgeAnswers : a.t # "ok"} : SvcFetch(o)
  \/ \E ok \in BOOLEAN : SvcRounds(ok)
  \/ \E ok \in BOOLEAN : SvcQuery(ok)
  \/ SvcReturn

AppSpec == AppInit /\ [][AppNext]_vars

\* the list holds every course of the table once, by name, each with its flag
EveryCourse(items) ==
  /\ {items[i].id : i \in 1..Len(items)} = DOMAIN courses
  /\ Len(items) = Cardinality(DOMAIN courses)
  /\ \A i \in 1..Len(items) :
       /\ items[i].name = courses[items[i].id].name
       /\ items[i].has_tee_data = (courses[items[i].id].tees > 0)
  /\ \A i, j \in 1..Len(items) :
       i < j => NameRank(items[i].name) <= NameRank(items[j].name)

\* C12 as stated: when get-courses answers getAllCourses and its query on the
\* courses table succeeds, and when the direct-query fallback succeeds, the
\* wrapper returns every course of the table, ordered by name, each with its
\* has_tee_data flag.
C12_Original ==
  [][(svc.fn = "getAllCourses"
        /\ (\/ (env.supabase /\ \E recentOk \in BOOLEAN : SvcServed(recentOk, TRUE))
            \/ SvcQuery(TRUE)))
       => EveryCourse(svc'.result.items)]_vars

\* the completed rounds of a user, and when the user last completed a round
\* on a course
PlayedBy(userId) == {g \in rounds : g.profile_id = userId /\ g.is_complete}

LastPlayed(userId, c) ==
  LET ts == {g.created_at : g \in {x \in PlayedBy(userId) : x.course_id = c}}
  IN CHOOSE t \in ts : \A u \in ts : u <= t

\* C13: getRecentCourses(userId, limit) returns at most limit courses, none
\* twice, each a course of the table on which that user completed a round, the
\* most recently played first, whether get-courses or the direct queries
\* produced the list; without a userId it returns [] and sends no request.
C13_RecentCourses ==
  (svc.pc = "done" /\ svc.fn = "getRecentCourses") =>
    LET items == svc.result.items
        n == Len(items)
    IN /\ svc.userId = "" =>
            (items = <<>> /\ svc.edgeCalls = 0 /\ svc.queries = 0)
       /\ n <= svc.limit
       /\ \A i, j \in 1..n : i # j => items[i].id # items[j].id
       /\ \A i \in 1..n :
            /\ items[i].id \in DOMAIN courses
            /\ \E g \in PlayedBy(svc.userId) : g.course_id = items[i].id
       /\ \A i, j \in 1..n :
            i < j => LastPlayed(svc.userId, items[i].id)
                       > LastPlayed(svc.userId, items[j].id)

\* get-courses answered for a user who played two courses, and the limit of 1
\* left the one played last
C13_Witness ==
  /\ svc.pc = "done" /\ svc.fn = "getRecentCourses" /\ svc.via = "edge"
  /\ svc.userId = "u1" /\ svc.limit = 1
  /\ Len(svc.result.items) = 1 /\ svc.result.items[1].id = "c2"

----------------------------------------------------------------------------
(* TrackerScreen: shots, hole navigation and finishRound *)

RECURSIVE SumLen(_, _)
SumLen(data, hs) ==
  IF hs = {} THEN 0
  ELSE LET h == CHOOSE h \in hs : TRUE
       IN Len(data[h].shots) + SumLen(data, hs \ {h})

\* the shots entered so far
ShotsEntered == SumLen(trk.holeData, Holes)

\* the initialization effect for a signed-in user with a selected course and
\* no round in progress: createRound, setRound, then setItem("currentRound")
InitializeRound(storeOk) ==
  /\ trk.pc = "idle"
  /\ trk.round = NoRound
  /\ trk' = [trk EXCEPT !.round = NewRound]
  /\ storage' = IF storeOk
                THEN [storage EXCEPT !.currentRound = Stringify(NewRound)]
                ELSE storage
  /\ UNCHANGED <<edgeVars, svc, rsvc>>

\* a shot as addShot pushes it; the time of the press is the number of the
\* press
Shot(k) == [type |-> k.type, result |-> k.result, timestamp |-> trk.presses + 1]

\* an addShot that pushes the shot and leaves the counts alone
addShotUncounted(k) ==
  /\ trk.pc = "idle"
  /\ ShotsEntered < MaxShots
  /\ trk.presses < MaxPresses
  /\ trk' = [trk EXCEPT !.presses = @ + 1,
                        !.holeData[trk.currentHole].shots = Append(@, Shot(k))]
  /\ UNCHANGED <<edgeVars, svc, storage, rsvc>>

\* addShot(type, outcome): push onto the current hole's shots, count it
addShot(k) ==
  /\ trk.pc = "idle"
  /\ ShotsEntered < MaxShots
  /\ trk.presses < MaxPresses
  /\ trk' = [trk EXCEPT !.presses = @ + 1,
                        !.holeData[trk.currentHole] =
                          [shots |-> Append(@.shots, Shot(k)),
                           shotCounts |-> [@.shotCounts EXCEPT ![k] = @ + 1]]]
  /\ UNCHANGED <<edgeVars, svc, storage, rsvc>>

\* the indices of the shots of one type and outcome
IndicesOf(shots, k) ==
  {i \in 1..Len(shots) : shots[i].type = k.type /\ shots[i].result = k.result}

\* shots.splice(i, 1)
Splice(shots, i) ==
  [j \in 1..(Len(shots) - 1) |-> IF j < i THEN shots[j] ELSE shots[j + 1]]

\* a removeShot that takes the first matching shot instead of the last
removeShotFirst(k) ==
  /\ trk.pc = "idle"
  /\ trk.presses < MaxPresses
  /\ LET currentHoleInfo == trk.holeData[trk.currentHole]
         hits == IndicesOf(currentHoleInfo.shots, k)
     IN trk' =
          IF currentHoleInfo.shotCounts[k] <= 0 \/ hits = {}
          THEN [trk EXCEPT !.presses = @ + 1]
          ELSE LET actualIndex == CHOOSE i \in hits : \A j \in hits : i <= j
               IN [trk EXCEPT !.presses = @ + 1,
                              !.holeData[trk.currentHole] =
                                [shots |-> Splice(@.shots, actualIndex),
                                 shotCounts |-> [@.shotCounts EXCEPT ![k] = @ - 1]]]
  /\ UNCHANGED <<edgeVars, svc, storage, rsvc>>

\* removeShot(type, outcome): nothing when the count is 0; else find the last
\* shot of that type and outcome, splice it out, and count down
removeShot(k) ==
  /\ trk.pc = "idle"
  /\ trk.presses < MaxPresses
  /\ LET currentHoleInfo == trk.holeData[trk.currentHole]
         hits == IndicesOf(currentHoleInfo.shots, k)
     IN trk' =
          IF currentHoleInfo.shotCounts[k] <= 0 \/ hits = {}
          THEN [trk EXCEPT !.presses = @ + 1]
          ELSE LET actualIndex == CHOOSE i \in hits : \A j \in hits : j <= i
               IN [trk EXCEPT !.presses = @ + 1,
                              !.holeData[trk.currentHole] =
                                [shots |-> Splice(@.shots, actualIndex),
                                 shotCounts |-> [@.shotCounts EXCEPT ![k] = @ - 1]]]
  /\ UNCHANGED <<edgeVars, svc, storage, rsvc>>

\* saveCurrentHoleToStorage: nothing without a round; getItem, set the current
\* hole's entry, setItem; a failure of either call is caught and logged
SaveCurrentHole(ok) ==
  IF trk.round = NoRound \/ ~ok THEN storage
  ELSE LET existingData == IF storage.holes.present THEN Parse(storage.holes)
                           ELSE <<>>
           hs == DOMAIN existingData \cup {trk.currentHole}
       IN [storage EXCEPT !.holes = Stringify(
             [h \in hs |-> IF h = trk.currentHole THEN trk.holeData[h]
                           ELSE existingData[h]])]

\* handleNextHole below the last hole: save, then setCurrentHole(prev + 1)
handleNextHole(ok) ==
  /\ trk.pc = "idle"
  /\ trk.currentHole < totalHoles
  /\ trk.currentHole < MaxHole
  /\ storage' = SaveCurrentHole(ok)
  /\ trk' = [trk EXCEPT !.currentHole = @ + 1]
  /\ UNCHANGED <<edgeVars, svc, rsvc>>

\* finishRound is pressed: setLoading(true)
FinishPress ==
  /\ trk.pc = "idle"
  /\ trk' = [trk EXCEPT !.pc = "persist", !.loading = TRUE, !.persisted = FALSE,
                        !.storedHoleData = <<>>, !.holeNum = 0, !.failedAt = ""]
  /\ rsvc' = [rsvc EXCEPT !.calls = <<>>]
  /\ UNCHANGED <<edgeVars, svc, storage>>

\* catch (error): setLoading(false) and the alert
FinishCatch(step) == [trk EXCEPT !.pc = "failed", !.loading = FALSE, !.failedAt = step]

\* await saveCurrentHoleToStorage(); then round.id is read
FinishPersist(ok) ==
  /\ trk.pc = "persist"
  /\ storage' = SaveCurrentHole(ok)
  /\ trk' = IF trk.round = NoRound THEN FinishCatch("round")
            ELSE [trk EXCEPT !.pc = "read", !.persisted = ok]
  /\ UNCHANGED <<edgeVars, svc, rsvc>>

\* the next hole from holeNum on that has stored shots; totalHoles + 1 if none
RECURSIVE NextToSave(_, _)
NextToSave(stored, holeNum) ==
  IF holeNum > totalHoles THEN holeNum
  ELSE IF holeNum \in DOMAIN stored /\ Len(stored[holeNum].shots) > 0 THEN holeNum
  ELSE NextToSave(stored, holeNum + 1)

\* the loop goes on to its next saveHoleData, or leaves for completeRound
FinishLoop(s, holeNum) ==
  LET n == NextToSave(s.storedHoleData, holeNum)
  IN [s EXCEPT !.holeNum = n, !.pc = IF n > totalHoles THEN "complete" ELSE "save"]

\* await AsyncStorage.getItem(`round_${round.id}_holes`), and the parse
FinishRead(ok) ==
  /\ trk.pc = "read"
  /\ trk' = IF ~ok THEN FinishCatch("read")
            ELSE IF ~storage.holes.present THEN FinishCatch("nodata")
            ELSE FinishLoop([trk EXCEPT !.storedHoleData = Parse(storage.holes)], 1)
  /\ UNCHANGED <<edgeVars, svc, storage, rsvc>>

\* roundservice.saveHoleData(roundId, holeNum, holeData, totalScore): the call
\* as the service receives it
saveHoleData(roundId, holeNum, holeDataForDb, totalScore, ok) ==
  [op |-> "saveHoleData", round |-> roundId, hole |-> holeNum,
   shots |-> holeDataForDb.shots, totalScore |-> totalScore, ok |-> ok]

\* roundservice.completeRound(roundId)
completeRound(roundId, ok) ==
  [op |-> "completeRound", round |-> roundId, hole |-> 0, shots |-> <<>>,
   totalScore |-> 0, ok |-> ok]

\* await saveHoleData(round.id, holeNum, holeDataForDb, totalScore)
FinishSave(ok) ==
  /\ trk.pc = "save"
  /\ LET holeInfo == trk.storedHoleData[trk.holeNum]
         totalScore == Len(holeInfo.shots)
     IN rsvc' = [rsvc EXCEPT !.calls = Append(@,
                   saveHoleData(trk.round.id, trk.holeNum, [shots |-> holeInfo.shots],
                                totalScore, ok))]
  /\ trk' = IF ok THEN FinishLoop(trk, trk.holeNum + 1) ELSE FinishCatch("save")
  /\ UNCHANGED <<edgeVars, svc, storage>>

\* await completeRound(round.id)
FinishComplete(ok) ==
  /\ trk.pc = "complete"
  /\ rsvc' = [rsvc EXCEPT !.calls = Append(@, completeRound(trk.round.id, ok)),
                          !.completed = @ \/ ok]
  /\ trk' = IF ok THEN [trk EXCEPT !.pc = "removeHoles"] ELSE FinishCatch("complete")
  /\ UNCHANGED <<edgeVars, svc, storage>>

\* await AsyncStorage.removeItem(`round_${round.id}_holes`)
FinishRemoveHoles(ok) ==
  /\ trk.pc = "removeHoles"
  /\ storage' = IF ok THEN [storage EXCEPT !.holes = NoItem] ELSE storage
  /\ trk' = IF ok THEN [trk EXCEPT !.pc = "removeRound"]
            ELSE FinishCatch("removeHoles")
  /\ UNCHANGED <<edgeVars, svc, rsvc>>

\* await AsyncStorage.removeItem("currentRound"), then navigation.replace
FinishRemoveRound(ok) ==
  /\ trk.pc = "removeRound"
  /\ storage' = IF ok THEN [storage EXCEPT !.currentRound = NoItem] ELSE storage
  /\ trk' = IF ok THEN [trk EXCEPT !.pc = "done", !.screen = "ScorecardScreen"]
            ELSE FinishCatch("removeRound")
  /\ UNCHANGED <<edgeVars, svc, rsvc>>

\* the alert is dismissed; the screen takes presses again
DismissAlert ==
  /\ trk.pc = "failed"
  /\ trk' = [trk EXCEPT !.pc = "idle"]
  /\ UNCHANGED <<edgeVars, svc, storage, rsvc>>

\* saveCurrentHoleToStorage as one render created it: it works on the round,
\* currentHole and holeData of that render (useCallback's closure)
SaveOfRender(round, currentHole, holeData, ok) ==
  IF round = NoRound \/ ~ok THEN storage
  ELSE LET existingData == IF storage.holes.present THEN Parse(storage.holes)
                           ELSE <<>>
           hs == DOMAIN existingData \cup {currentHole}
       IN [storage EXCEPT !.holes = Stringify(
             [h \in hs |-> IF h = currentHole THEN holeData[h]
                           ELSE existingData[h]])]

\* "Exit" in the hardware-back dialog. The effect that registers the handler
\* has no dependencies, so the handler calls the saveCurrentHoleToStorage of
\* the first render (round null, hole 1, initialHoleState), then goBack()
ExitConfirmed ==
  /\ trk.pc = "idle"
  /\ storage' = SaveOfRender(TrkIdle.round, TrkIdle.currentHole, TrkIdle.holeData,
                             TRUE)
  /\ trk' = [trk EXCEPT !.pc = "left", !.screen = "back"]
  /\ UNCHANGED <<edgeVars, svc, rsvc>>

TrkInit ==
  /\ clock = 0
  /\ ticks = 0
  /\ env = [supabase |-> TRUE, golfKey |-> TRUE, claudeKey |-> TRUE,
            upstreamUp |-> TRUE]
  /\ courses = [c \in CourseIds |-> FullRow]
  /\ rounds = Rounds0
  /\ insights = <<>>
  /\ req = [r \in Reqs |-> Idle]
  /\ served = 0
  /\ ClientInit

TrkNext ==
  \/ \E ok \in BOOLEAN : InitializeRound(ok)
  \/ \E k \in ShotKinds : addShot(k)
  \/ \E ok \in BOOLEAN : handleNextHole(ok)
  \/ FinishPress
  \/ \E ok \in BOOLEAN : FinishPersist(ok)
  \/ \E ok \in BOOLEAN : FinishRead(ok)
  \/ \E ok \in BOOLEAN : FinishSave(ok)
  \/ \E ok \in BOOLEAN : FinishComplete(ok)
  \/ \E ok \in BOOLEAN : FinishRemoveHoles(ok)
  \/ \E ok \in BOOLEAN : FinishRemoveRound(ok)
  \/ ExitConfirmed
  \/ DismissAlert

TrkSpec == TrkInit /\ [][TrkNext]_vars

----------------------------------------------------------------------------
(* TrackerScreen: hole navigation, press by press *)

\* what a handler keeps across its await: the round, currentHole and holeData
\* of the render in which the button was pressed
Pressed(kind) ==
  [kind |-> kind, round |-> trk.round, currentHole |-> trk.currentHole,
   holeData |-> trk.holeData]

\* handleNextHole is pressed: below the last hole it awaits the save, on the
\* last hole it shows the "End of Round" alert
PressNextHole ==
  /\ trk.pc = "idle" /\ trk.screen = "TrackerScreen"
  /\ trk.presses < MaxPresses
  /\ trk' = [trk EXCEPT !.presses = @ + 1,
                        !.pending = IF trk.currentHole < totalHoles
                                    THEN Append(@, Pressed("next")) ELSE @]
  /\ UNCHANGED <<edgeVars, svc, storage, rsvc>>

\* handlePreviousHole is pressed: above hole 1 it awaits the save
PressPreviousHole ==
  /\ trk.pc = "idle" /\ trk.screen = "TrackerScreen"
  /\ trk.presses < MaxPresses
  /\ trk' = [trk EXCEPT !.presses = @ + 1,
                        !.pending = IF trk.currentHole > 1
                                    THEN Append(@, Pressed("previous")) ELSE @]
  /\ UNCHANGED <<edgeVars, svc, storage, rsvc>>

\* "Complete Hole" is pressed; the button is shown while nothing is loading
\* and, on the last hole, calls finishRound instead. setLoading(true), then
\* the handler awaits the save
PressCompleteHole ==
  /\ trk.pc = "idle" /\ trk.screen = "TrackerScreen"
  /\ trk.presses < MaxPresses
  /\ ~trk.loading
  /\ trk.currentHole # totalHoles
  /\ trk' = [trk EXCEPT !.presses = @ + 1, !.loading = TRUE,
                        !.pending = Append(@, Pressed("complete"))]
  /\ UNCHANGED <<edgeVars, svc, storage, rsvc>>

\* the save of the i-th waiting handler settles and the handler goes on:
\* setCurrentHole(prev => prev + 1) or (prev => prev - 1); completeHole tests
\* the currentHole of its render first and ends with setLoading(false). A
\* render outside the 18 holes throws at holeData[currentHole].shotCounts
\* once the shot table is shown
ResumePress(i, ok) ==
  /\ i \in 1..Len(trk.pending)
  /\ LET p == trk.pending[i]
         rest == [j \in 1..(Len(trk.pending) - 1) |->
                    IF j < i THEN trk.pending[j] ELSE trk.pending[j + 1]]
         hole == CASE p.kind = "next" -> trk.currentHole + 1
                   [] p.kind = "previous" -> trk.currentHole - 1
                   [] OTHER -> IF p.currentHole < totalHoles
                               THEN trk.currentHole + 1 ELSE trk.currentHole
         loading == IF p.kind = "complete" THEN FALSE ELSE trk.loading
     IN /\ storage' = SaveOfRender(p.round, p.currentHole, p.holeData, ok)
        /\ trk' = IF trk.screen # "TrackerScreen" THEN [trk EXCEPT !.pending = rest]
                  ELSE [trk EXCEPT !.pending = rest, !.currentHole = hole,
                                   !.loading = loading,
                                   !.screen = IF hole \notin Holes /\ ~loading
                                              THEN "crashed" ELSE @]
  /\ UNCHANGED <<edgeVars, svc, rsvc>>

NavNext ==
  \/ \E ok \in BOOLEAN : InitializeRound(ok)
  \/ PressNextHole
  \/ PressPreviousHole
  \/ PressCompleteHole
  \/ \E i \in 1..MaxPresses, ok \in BOOLEAN : ResumePress(i, ok)

NavSpec == TrkInit /\ [][NavNext]_vars

\* C16 as stated: currentHole stays within 1..18 after any sequence and any
\* interleaving of next-hole, previous-hole and complete-hole presses, presses
\* made while an earlier press still awaits its save included.
C16_Original == trk.currentHole \in Holes

----------------------------------------------------------------------------
(* TrackerScreen: the shot table *)

ShotNext ==
  \/ \E ok \in BOOLEAN : InitializeRound(ok)
  \/ \E k \in ShotKinds : addShot(k)
  \/ \E k \in ShotKinds : removeShot(k)
  \/ \E ok \in BOOLEAN : handleNextHole(ok)

ShotSpec == TrkInit /\ [][ShotNext]_vars

RECURSIVE SumCounts(_, _)
SumCounts(counts, ks) ==
  IF ks = {} THEN 0
  ELSE LET k == CHOOSE k \in ks : TRUE
       IN counts[k] + SumCounts(counts, ks \ {k})

\* C17: on every hole, after any sequence of addShot and removeShot, each
\* count equals the number of the hole's shots of that type and outcome, the
\* score (shots.length) is the sum of the counts, and no count is negative.
C17_CountsMatchShots ==
  \A h \in Holes :
    LET info == trk.holeData[h]
    IN /\ \A k \in ShotKinds :
            /\ info.shotCounts[k] = Cardinality(IndicesOf(info.shots, k))
            /\ info.shotCounts[k] >= 0
       /\ Len(info.shots) = SumCounts(info.shotCounts, ShotKinds)

\* after three presses hole 1 holds the shot of the second press alone, with
\* its count at 1 and the other count at 0: a tee shot was added, a putt was
\* added, and the tee shot was removed
C17_Witness ==
  /\ trk.presses = 3 /\ trk.currentHole = 1
  /\ trk.holeData[1].shots =
       <<[type |-> "Putts", result |-> "Slightly Off", timestamp |-> 2]>>
  /\ trk.holeData[1].shotCounts[[type |-> "Putts", result |-> "Slightly Off"]] = 1
  /\ trk.holeData[1].shotCounts[[type |-> "Tee Shot", result |-> "On Target"]] = 0

\* the hole data after removeShot(k) as the shot table expects it: unchanged
\* when the hole has no such shot, else without the last such shot
Removed(info, k) ==
  IF IndicesOf(info.shots, k) = {} THEN info
  ELSE LET last == CHOOSE i \in IndicesOf(info.shots, k) :
                     \A j \in IndicesOf(info.shots, k) : j <= i
       IN [shots |-> SubSeq(info.shots, 1, last - 1)
                       \o SubSeq(info.shots, last + 1, Len(info.shots)),
           shotCounts |-> [c \in ShotKinds |->
                             IF c = k THEN info.shotCounts[c] - 1
                             ELSE info.shotCounts[c]]]

----------------------------------------------------------------------------
(* TrackerScreen: the initialization effect, await by await *)

\* roundservice.createRound(user.id, courseData.id, teeId, teeName): the call
\* as the service receives it, and the round it gives
createRound(roundId, ok) ==
  [op |-> "createRound", round |-> roundId, hole |-> 0, shots |-> <<>>,
   totalScore |-> 0, ok |-> ok]

\* the rounds the service creates, one after the other
CreatedRound(n) == IF n = 0 THEN NewRound ELSE [id |-> "g10"]

RoundsCreated ==
  Cardinality({i \in 1..Len(rsvc.calls) :
                 rsvc.calls[i].op = "createRound" /\ rsvc.calls[i].ok})

\* the end of initializeRound: the stored holes of the round are merged into
\* holeData
LoadStoredHoles(holeData) ==
  IF ~storage.holes.present THEN holeData
  ELSE [h \in Holes |-> IF h \in DOMAIN Parse(storage.holes)
                        THEN Parse(storage.holes)[h] ELSE holeData[h]]

WithoutEntry(pending, i) ==
  [j \in 1..(Len(pending) - 1) |-> IF j < i THEN pending[j] ELSE pending[j + 1]]

\* the effect runs, on mount or because user or navigation changed, for a
\* signed-in user with a selected course: getItem("currentRound"); with an
\* entry the round is resumed, without one the run goes on to createRound; a
\* rejected getItem ends in the catch
EffectRun(readOk) ==
  /\ trk.pc = "idle" /\ trk.screen = "TrackerScreen"
  /\ Len(rsvc.calls) + Len(trk.pending) < MaxEffectRuns
  /\ trk' = IF ~readOk THEN trk
            ELSE IF storage.currentRound.present
            THEN [trk EXCEPT !.round = Parse(storage.currentRound),
                             !.holeData = LoadStoredHoles(@)]
            ELSE [trk EXCEPT !.pending = Append(@, [kind |-> "createRound"])]
  /\ UNCHANGED <<edgeVars, svc, storage, rsvc>>

\* await createRound(...) of a waiting run settles: setRound(roundData), then
\* the run goes on to setItem; a rejection ends in the catch
CreateRoundSettles(i, ok) ==
  /\ i \in 1..Len(trk.pending)
  /\ trk.pending[i].kind = "createRound"
  /\ LET roundData == CreatedRound(RoundsCreated)
     IN /\ rsvc' = [rsvc EXCEPT !.calls = Append(@, createRound(roundData.id, ok))]
        /\ trk' = IF ok
                  THEN [trk EXCEPT !.round = roundData,
                                   !.pending[i] = [kind |-> "setItem",
                                                   roundData |-> roundData]]
                  ELSE [trk EXCEPT !.pending = WithoutEntry(@, i)]
  /\ UNCHANGED <<edgeVars, svc, storage>>

\* await AsyncStorage.setItem("currentRound", ...) of a waiting run settles;
\* then the course details and the stored holes are loaded
StoreRoundSettles(i, ok) ==
  /\ i \in 1..Len(trk.pending)
  /\ trk.pending[i].kind = "setItem"
  /\ storage' = IF ok
                THEN [storage EXCEPT
                        !.currentRound = Stringify(trk.pending[i].roundData)]
                ELSE storage
  /\ trk' = [trk EXCEPT !.pending = WithoutEntry(@, i),
                        !.holeData = IF ok THEN LoadStoredHoles(@) ELSE @]
  /\ UNCHANGED <<edgeVars, svc, rsvc>>

EffectNext ==
  \/ \E ok \in BOOLEAN : EffectRun(ok)
  \/ \E i \in 1..MaxEffectRuns, ok \in BOOLEAN : CreateRoundSettles(i, ok)
  \/ \E i \in 1..MaxEffectRuns, ok \in BOOLEAN : StoreRoundSettles(i, ok)
  \/ \E k \in ShotKinds : addShot(k)
  \/ \E ok \in BOOLEAN : handleNextHole(ok)

EffectSpec == TrkInit /\ [][EffectNext]_vars

\* C23 as stated: while no finishRound has run, createRound gives at most one
\* round, also when the initialization effect runs more than once.
C23_Original == RoundsCreated <= 1

----------------------------------------------------------------------------
(* Properties of finishRound, for the specification TrkSpec *)

\* the holes of a stored hole-data object that have at least one shot
HolesWithShots(stored) == {h \in DOMAIN stored : Len(stored[h].shots) > 0}

\* the saveHoleData calls of this run, in the order they were made
SaveCalls == SelectSeq(rsvc.calls, LAMBDA c : c.op = "saveHoleData")

\* this run has called completeRound, and the call succeeded
Completed ==
  \E i \in 1..Len(rsvc.calls) :
    rsvc.calls[i].op = "completeRound" /\ rsvc.calls[i].ok

\* C10 as stated: finishRound first persists the current hole; it calls
\* saveHoleData once per hole with stored shots, in ascending order and with
\* totalScore the number of shots; completeRound follows only after all these
\* saves succeeded; the local keys go only after completeRound succeeded; a
\* failure at any step leaves the stored round data in place and does not
\* navigate to the scorecard.
C10_Original ==
  /\ (trk.pc \in {"read", "save", "complete", "removeHoles"} /\ trk.persisted) =>
       /\ storage.holes.present
       /\ trk.currentHole \in DOMAIN Parse(storage.holes)
       /\ Parse(storage.holes)[trk.currentHole] = trk.holeData[trk.currentHole]
  /\ \A i \in 1..Len(SaveCalls) :
       /\ SaveCalls[i].hole \in HolesWithShots(trk.storedHoleData)
       /\ SaveCalls[i].shots = trk.storedHoleData[SaveCalls[i].hole].shots
       /\ SaveCalls[i].totalScore = Len(SaveCalls[i].shots)
       /\ \A j \in 1..(i - 1) : SaveCalls[j].hole < SaveCalls[i].hole
  /\ (\E i \in 1..Len(rsvc.calls) : rsvc.calls[i].op = "completeRound") =>
       /\ {SaveCalls[i].hole : i \in 1..Len(SaveCalls)}
            = HolesWithShots(trk.storedHoleData)
       /\ \A i \in 1..Len(SaveCalls) : SaveCalls[i].ok
  /\ (trk.pc \in {"removeRound", "done", "failed"} /\ trk.storedHoleData # <<>>
        /\ ~storage.holes.present) => Completed
  /\ trk.pc = "failed" =>
       /\ trk.screen = "TrackerScreen"
       /\ trk.storedHoleData # <<>> => storage.holes.present
  /\ trk.screen = "ScorecardScreen" =>
       (trk.persisted /\ Completed /\ \A i \in 1..Len(rsvc.calls) : rsvc.calls[i].ok)

\* C11 as stated: once "Exit" was confirmed with a round in progress and shots
\* on the current hole, and the screen has gone back, round_<id>_holes holds
\* the current hole's shots and counts as they are in memory.
C11_Original ==
  (trk.screen = "back" /\ trk.round # NoRound
     /\ Len(trk.holeData[trk.currentHole].shots) > 0) =>
    /\ storage.holes.present
    /\ trk.currentHole \in DOMAIN Parse(storage.holes)
    /\ Parse(storage.holes)[trk.currentHole] = trk.holeData[trk.currentHole]

====
